---- MODULE Spec2Model ----
(***************************************************************************)
(* Model of the adaptive load optimizer (build_policy.c) and of the        *)
(* /proc/hmbird_sched tunable registry (hmbird_sched_proc_main.c).         *)
(*                                                                         *)
(* Every handler of the two files is one atomic action.  The scheduler's   *)
(* run queues, the clock and the set of online processors are the          *)
(* environment; they change through the actions Tick, Schedule, CpuUp and  *)
(* CpuDown.                                                                *)
(***************************************************************************)
EXTENDS Integers, Sequences, FiniteSets, TLC

(***************************************************************************)
(* Bounds of the model.                                                    *)
(***************************************************************************)
NrCpus == 2                     \* processors 0 .. NrCpus-1 are hot-pluggable
MaxCpus == 9                    \* processor ids 0 .. MaxCpus-1 exist
MaxTicks == 4                   \* the clock is followed for MaxTicks ticks

NSEC_PER_MSEC == 1000000        \* the 1000000ULL of the rate-limit test
TickNs == 50 * NSEC_PER_MSEC    \* one tick of the model's clock, in ns
MaxClock == MaxTicks * TickNs

CPUS == 0 .. (NrCpus - 1)
AllCpus == 0 .. (MaxCpus - 1)
LoadValues == {0, 1, 4, 5}      \* values rq->nr_running takes in the model
ThresholdWrites == {40, 100}    \* values written to the threshold parameter
IntervalWrites == {50}          \* values written to the interval parameter
NoCpu == 0 - 1
NoTime == 0 - 1

VARIABLES
    policy_optimization_enabled,   \* build_policy.c:82
    cpu_performance_threshold,     \* build_policy.c:83
    load_balance_interval,         \* build_policy.c:84
    last_optimization_time,        \* build_policy.c:85
    notifier_registered,           \* policy_cpu_notifier is on the hotplug chain
    phase,                         \* "unloaded", "running", "failed", "exited"
    clock,                         \* sched_clock(), in ns
    cpu_online,                    \* the online mask
    nr_running,                    \* rq->nr_running of every processor
    obs,                           \* what the last step did (see NoObs)
    prev_call_time,                \* history: clock of the previous optimizer
                                   \* invocation (followed in SpecRate only)
    proc_status,                   \* "" before hmbird_proc_init, then its result
    proc_entries,                  \* names of the /proc entries that exist
    tun,                           \* the globals of hmbird_sched_proc_main.c:20-49
    nwrites,                       \* number of writes made to /proc entries
    pobs,                          \* what the last step did on /proc (see NoPobs)
    nr_switches,                   \* rq->nr_switches of every processor
    inflight                       \* position of each context inside its
                                   \* handler (followed in SpecConc only)

policy_vars == <<policy_optimization_enabled, cpu_performance_threshold,
                 load_balance_interval, last_optimization_time,
                 notifier_registered, phase, clock, cpu_online, nr_running, obs>>

proc_vars == <<proc_status, proc_entries, tun, nwrites, pobs>>

vars == <<policy_vars, prev_call_time, proc_vars, nr_switches, inflight>>

(***************************************************************************)
(* The observable effects of one step.                                     *)
(*   op        "init", "exit" or "hotplug" when the step was a handler of  *)
(*             build_policy.c that reached its optimizer call              *)
(*   pass      "none": the optimizer was not invoked; "gated": it returned *)
(*             at the rate-limit test; "ran": it got through the test      *)
(*   cpu       smp_processor_id() of a pass that ran                       *)
(*   enabled   policy_optimization_enabled as read by a pass that ran      *)
(*   registered  whether the notifier was registered while the pass ran    *)
(*   sampled   the processors whose run queue was read                     *)
(*   overloaded  the processors reported by "CPU %d overloaded"            *)
(*   triggered "Triggering system-wide load rebalancing" was printed       *)
(*   ipi       number of smp_call_function_single() calls per processor    *)
(*   ret       the handler's return value                                  *)
(***************************************************************************)
NoIpi == [c \in AllCpus |-> 0]

NoObs ==
    [op |-> "", pass |-> "none", cpu |-> NoCpu, enabled |-> FALSE,
     registered |-> FALSE, sampled |-> {}, overloaded |-> {},
     triggered |-> FALSE, ipi |-> NoIpi, ret |-> ""]

RECURSIVE SumOver(_, _)
SumOver(f, S) ==
    IF S = {} THEN 0
    ELSE LET c == CHOOSE x \in S : TRUE IN f[c] + SumOver(f, S \ {c})

Min(a, b) == IF a < b THEN a ELSE b
Max(a, b) == IF a > b THEN a ELSE b

(***************************************************************************)
(* optimize_cpu_performance, piece by piece.                               *)
(***************************************************************************)

\* Mutant of rate_limited: the gate lets every invocation through.
rate_limited_never(current_time, last, interval) == FALSE

\* Mutant of rate_limited: the interval converted to microseconds.
rate_limited_usec(current_time, last, interval) ==
    IF interval < 0 THEN TRUE
    ELSE current_time - last < interval * 1000

\* build_policy.c:97.  The comparison is made in u64: a negative interval
\* converts to a value above 2^63, which every elapsed time is below.
rate_limited(current_time, last, interval) ==
    IF interval < 0 THEN TRUE
    ELSE current_time - last < interval * NSEC_PER_MSEC

\* build_policy.c:103-105: total_load over the online processors.
total_load(online, rq) == SumOver(rq, online)

\* build_policy.c:108: the processors found overloaded.
overloaded_cpus(online, rq) ==
    {c \in online : rq[c] > Cardinality(online) * 2}

\* build_policy.c:116: the condition of the fan-out.
need_kick(enabled, online, rq) ==
    overloaded_cpus(online, rq) # {} /\ enabled

\* Mutant of kick_all: the caller's processor is not skipped.
kick_all_with_self(online, me) ==
    [c \in AllCpus |-> IF c \in online THEN 1 ELSE 0]

\* build_policy.c:120-124: one smp_call_function_single() per online
\* processor other than the caller's.
kick_all(online, me) ==
    [c \in AllCpus |-> IF c \in online /\ c # me THEN 1 ELSE 0]

\* Mutant of adjust_threshold: the upper comparison is not strict.
adjust_threshold_ge(threshold, total, online_cpus) ==
    IF total >= online_cpus * 3 THEN Min(threshold + 5, 95)
    ELSE IF total < online_cpus THEN Max(threshold - 5, 50)
    ELSE threshold

\* build_policy.c:128-132.
adjust_threshold(threshold, total, online_cpus) ==
    IF total > online_cpus * 3 THEN Min(threshold + 5, 95)
    ELSE IF total < online_cpus THEN Max(threshold - 5, 50)
    ELSE threshold

\* Mutant of optimize_cpu_performance: the timestamp is stored before the
\* gate is tested, so a rejected invocation moves it.
optimize_cpu_performance_stamp_first(op, enabled, threshold, interval, last, registered, online, me) ==
    LET current_time == clock
        online_cpus == Cardinality(online)
        base == [NoObs EXCEPT !.op = op]
    IN  IF rate_limited(current_time, last, interval)
        THEN [threshold |-> threshold, last |-> current_time,
              obs |-> [base EXCEPT !.pass = "gated"]]
        ELSE [threshold |->
                  adjust_threshold(threshold, total_load(online, nr_running),
                                   online_cpus),
              last |-> current_time,
              obs |-> [base EXCEPT
                  !.pass = "ran",
                  !.cpu = me,
                  !.enabled = enabled,
                  !.registered = registered,
                  !.sampled = online,
                  !.overloaded = overloaded_cpus(online, nr_running),
                  !.triggered = need_kick(enabled, online, nr_running),
                  !.ipi = IF need_kick(enabled, online, nr_running)
                          THEN kick_all(online, me) ELSE NoIpi]]

\* build_policy.c:87-133.  The result carries the new values of the two
\* globals the function writes and the observation of the invocation.
optimize_cpu_performance(op, enabled, threshold, interval, last, registered, online, me) ==
    LET current_time == clock
        online_cpus == Cardinality(online)
        base == [NoObs EXCEPT !.op = op]
    IN  IF rate_limited(current_time, last, interval)
        THEN [threshold |-> threshold, last |-> last,
              obs |-> [base EXCEPT !.pass = "gated"]]
        ELSE [threshold |->
                  adjust_threshold(threshold, total_load(online, nr_running),
                                   online_cpus),
              last |-> current_time,
              obs |-> [base EXCEPT
                  !.pass = "ran",
                  !.cpu = me,
                  !.enabled = enabled,
                  !.registered = registered,
                  !.sampled = online,
                  !.overloaded = overloaded_cpus(online, nr_running),
                  !.triggered = need_kick(enabled, online, nr_running),
                  !.ipi = IF need_kick(enabled, online, nr_running)
                          THEN kick_all(online, me) ELSE NoIpi]]

(***************************************************************************)
(* Environment.                                                            *)
(***************************************************************************)
policy_state == <<policy_optimization_enabled, cpu_performance_threshold,
                  load_balance_interval, last_optimization_time>>

\* sched_clock() advances.
Tick ==
    /\ clock + TickNs <= MaxClock
    /\ clock' = clock + TickNs
    /\ obs' = NoObs
    /\ UNCHANGED <<policy_state, notifier_registered, phase, cpu_online,
                   nr_running>>

\* The scheduler enqueues or dequeues tasks on an online processor.
Schedule ==
    \E c \in cpu_online, v \in LoadValues :
        /\ v # nr_running[c]
        /\ nr_running' = [nr_running EXCEPT ![c] = v]
        /\ obs' = NoObs
        /\ UNCHANGED <<policy_state, notifier_registered, phase, clock,
                       cpu_online>>

(***************************************************************************)
(* Handlers of build_policy.c.                                             *)
(***************************************************************************)

\* The globals optimize_cpu_performance writes, and the observation.
ApplyPass(r) ==
    /\ cpu_performance_threshold' = r.threshold
    /\ last_optimization_time' = r.last
    /\ obs' = r.obs

HotplugActions ==
    {"CPU_ONLINE", "CPU_UP_PREPARE", "CPU_DOWN_PREPARE", "CPU_DEAD"}

\* Mutant of strip_frozen: the CPU_TASKS_FROZEN bit stays in the action.
strip_frozen_not(action) == IF action.frozen THEN "FROZEN" ELSE action.kind

\* build_policy.c:141: action & ~CPU_TASKS_FROZEN.
strip_frozen(action) == action.kind

\* build_policy.c:135-156.
policy_cpu_callback(action, threshold, online, me) ==
    LET kind == strip_frozen(action)
        r == IF kind = "CPU_ONLINE" \/ kind = "CPU_DOWN_PREPARE"
             THEN optimize_cpu_performance("hotplug",
                      policy_optimization_enabled,
                      threshold, load_balance_interval,
                      last_optimization_time, TRUE, online, me)
             ELSE [threshold |-> threshold, last |-> last_optimization_time,
                   obs |-> NoObs]
    IN  [r EXCEPT !.obs.ret = "NOTIFY_OK"]

\* The hotplug core walks the notifier chain.
call_chain(action, online, me) ==
    IF notifier_registered
    THEN ApplyPass(policy_cpu_callback(action, cpu_performance_threshold,
                                       online, me))
    ELSE /\ obs' = NoObs
         /\ UNCHANGED <<cpu_performance_threshold, last_optimization_time>>

\* A processor comes online; CPU_ONLINE is sent once it is in the mask.
CpuUp ==
    \E c \in CPUS \ cpu_online, frozen \in BOOLEAN :
        LET online == cpu_online \cup {c} IN
        \E me \in online :
            /\ cpu_online' = online
            /\ call_chain([kind |-> "CPU_ONLINE", frozen |-> frozen],
                          online, me)
            /\ UNCHANGED <<policy_optimization_enabled, load_balance_interval,
                           notifier_registered, phase, clock, nr_running>>

\* A processor goes offline; CPU_DOWN_PREPARE is sent while it is still in
\* the mask, then it leaves the mask and its run queue is drained.
CpuDown ==
    \E c \in cpu_online, frozen \in BOOLEAN, me \in cpu_online :
        /\ Cardinality(cpu_online) > 1
        /\ call_chain([kind |-> "CPU_DOWN_PREPARE", frozen |-> frozen],
                      cpu_online, me)
        /\ cpu_online' = cpu_online \ {c}
        /\ nr_running' = [nr_running EXCEPT ![c] = 0]
        /\ UNCHANGED <<policy_optimization_enabled, load_balance_interval,
                       notifier_registered, phase, clock>>

\* The other notifications of a hotplug operation.
CpuOtherEvent ==
    \E kind \in {"CPU_UP_PREPARE", "CPU_DEAD"}, frozen \in BOOLEAN,
       me \in cpu_online :
        /\ notifier_registered
        /\ call_chain([kind |-> kind, frozen |-> frozen], cpu_online, me)
        /\ UNCHANGED <<policy_optimization_enabled, load_balance_interval,
                       notifier_registered, phase, clock, cpu_online,
                       nr_running>>

\* Mutant of init_parameters: the first tier starts above eight.
init_parameters_above(online_cpus) ==
    IF online_cpus > 8 THEN [threshold |-> 85, interval |-> 50]
    ELSE IF online_cpus >= 4 THEN [threshold |-> 75, interval |-> 75]
    ELSE [threshold |-> 70, interval |-> 100]

\* build_policy.c:181-190: the table keyed by the processor count.
init_parameters(online_cpus) ==
    IF online_cpus >= 8 THEN [threshold |-> 85, interval |-> 50]
    ELSE IF online_cpus >= 4 THEN [threshold |-> 75, interval |-> 75]
    ELSE [threshold |-> 70, interval |-> 100]

\* Mutant of build_policy_init: the table is written before the notifier is
\* registered, so a failed registration leaves the table's values behind.
build_policy_init_table_first ==
    \E ret \in {"0", "-ENOMEM"}, me \in cpu_online :
        LET online_cpus == Cardinality(cpu_online)
            p == init_parameters(online_cpus)
            r == optimize_cpu_performance("init",
                     policy_optimization_enabled, p.threshold,
                     p.interval, last_optimization_time, TRUE,
                     cpu_online, me)
        IN  /\ phase = "unloaded"
            /\ load_balance_interval' = p.interval
            /\ IF ret # "0"
               THEN /\ phase' = "failed"
                    /\ cpu_performance_threshold' = p.threshold
                    /\ obs' = [NoObs EXCEPT !.op = "init", !.ret = ret]
                    /\ UNCHANGED <<policy_optimization_enabled,
                                   last_optimization_time,
                                   notifier_registered>>
               ELSE /\ notifier_registered' = TRUE
                    /\ ApplyPass([r EXCEPT !.obs.ret = "0"])
                    /\ phase' = "running"
                    /\ UNCHANGED policy_optimization_enabled
            /\ UNCHANGED <<clock, cpu_online, nr_running>>

\* build_policy.c:163-200.  ret is what register_cpu_notifier returns.
build_policy_init ==
    \E ret \in {"0", "-ENOMEM"}, me \in cpu_online :
        /\ phase = "unloaded"
        /\ IF ret # "0"
           THEN /\ phase' = "failed"
                /\ obs' = [NoObs EXCEPT !.op = "init", !.ret = ret]
                /\ UNCHANGED <<policy_state, notifier_registered>>
           ELSE LET online_cpus == Cardinality(cpu_online)
                    p == init_parameters(online_cpus)
                    r == optimize_cpu_performance("init",
                             policy_optimization_enabled, p.threshold,
                             p.interval, last_optimization_time, TRUE,
                             cpu_online, me)
                IN  /\ notifier_registered' = TRUE
                    /\ load_balance_interval' = p.interval
                    /\ ApplyPass([r EXCEPT !.obs.ret = "0"])
                    /\ phase' = "running"
                    /\ UNCHANGED policy_optimization_enabled
        /\ UNCHANGED <<clock, cpu_online, nr_running>>

\* Mutant of build_policy_exit: the flag is cleared after the final pass.
build_policy_exit_flag_late ==
    \E me \in cpu_online :
        /\ phase = "running"
        /\ notifier_registered' = FALSE
        /\ policy_optimization_enabled' = FALSE
        /\ ApplyPass(optimize_cpu_performance("exit",
               policy_optimization_enabled, cpu_performance_threshold,
               load_balance_interval, last_optimization_time, FALSE,
               cpu_online, me))
        /\ phase' = "exited"
        /\ UNCHANGED <<load_balance_interval, clock, cpu_online, nr_running>>

\* build_policy.c:202-216.
build_policy_exit ==
    \E me \in cpu_online :
        /\ phase = "running"
        /\ notifier_registered' = FALSE
        /\ policy_optimization_enabled' = FALSE
        /\ ApplyPass(optimize_cpu_performance("exit", FALSE,
               cpu_performance_threshold, load_balance_interval,
               last_optimization_time, FALSE, cpu_online, me))
        /\ phase' = "exited"
        /\ UNCHANGED <<load_balance_interval, clock, cpu_online, nr_running>>

\* build_policy.c:226-232: the three statics are module parameters with
\* mode 0644: a value given at load time, or written to the parameter file
\* while the module is loaded, is stored as it is.
module_param_write ==
    /\ phase \in {"unloaded", "running"}
    /\ \/ \E v \in BOOLEAN :
            /\ v # policy_optimization_enabled
            /\ policy_optimization_enabled' = v
            /\ obs' = NoObs
            /\ UNCHANGED <<cpu_performance_threshold, load_balance_interval>>
       \/ \E v \in ThresholdWrites :
            /\ v # cpu_performance_threshold
            /\ cpu_performance_threshold' = v
            /\ obs' = NoObs
            /\ UNCHANGED <<policy_optimization_enabled, load_balance_interval>>
       \/ \E v \in IntervalWrites :
            /\ v # load_balance_interval
            /\ load_balance_interval' = v
            /\ obs' = NoObs
            /\ UNCHANGED <<policy_optimization_enabled,
                           cpu_performance_threshold>>
    /\ UNCHANGED <<last_optimization_time, notifier_registered, phase, clock,
                   cpu_online, nr_running>>

(***************************************************************************)
(* hmbird_sched_proc_main.c: the /proc/hmbird_sched entries.               *)
(*                                                                         *)
(* A text is a sequence of one-character strings.                          *)
(***************************************************************************)
MaxWrites == 1                  \* writes made to /proc entries in one run

\* Texts written by the callers of the model.
WriteTexts ==
    { <<"1", "2">>,                   \* decimal
      <<" ", "1", "2", "\n">>,        \* decimal in white space
      <<"+", "1", "2">>,              \* signed decimal
      <<"-", "3">>,
      <<"0">>,
      <<"0", "1", "0">>,              \* leading zero
      <<"0", "x", "0", "c">>,         \* hexadecimal
      <<"0", "8">>,
      <<"1", "a">>,
      <<"-">>,
      <<>>,                           \* empty write
      <<"1", "2", "3", "\n">>,        \* four bytes
      <<"1", "2", "3", "4", "\n">>,   \* five bytes
      <<"1", "2", "3", "4", "5">> }

HexDigits ==
    <<"0", "1", "2", "3", "4", "5", "6", "7", "8", "9",
      "a", "b", "c", "d", "e", "f">>

IsSpace(ch) == ch \in {" ", "\n", "\t"}

ToLower(ch) ==
    IF ch = "X" THEN "x" ELSE IF ch = "A" THEN "a" ELSE IF ch = "F" THEN "f"
    ELSE ch

IsHexDigit(ch) == \E i \in 1 .. 16 : HexDigits[i] = ToLower(ch)

DigitValue(ch) == (CHOOSE i \in 1 .. 16 : HexDigits[i] = ToLower(ch)) - 1

Drop(s, k) == SubSeq(s, k + 1, Len(s))

\* strstrip(): white space removed at both ends.
RECURSIVE skip_spaces(_)
skip_spaces(s) ==
    IF Len(s) > 0 /\ IsSpace(s[1]) THEN skip_spaces(Drop(s, 1)) ELSE s

RECURSIVE strip_tail(_)
strip_tail(s) ==
    IF Len(s) > 0 /\ IsSpace(s[Len(s)])
    THEN strip_tail(SubSeq(s, 1, Len(s) - 1)) ELSE s

strstrip(s) == skip_spaces(strip_tail(s))

\* _parse_integer(): the digits of the base at the head of s; rv counts them.
IsDigitOf(ch, base) == IsHexDigit(ch) /\ DigitValue(ch) < base

RECURSIVE parse_integer(_, _, _, _)
parse_integer(s, base, rv, acc) ==
    IF Len(s) > 0 /\ IsDigitOf(s[1], base)
    THEN parse_integer(Drop(s, 1), base, rv + 1, acc * base + DigitValue(s[1]))
    ELSE [rv |-> rv, val |-> acc, rest |-> s]

\* _parse_integer_fixup_radix(): base 0 selects 16 after "0x" and a hex
\* digit, 8 after another "0", 10 otherwise; "0x" is skipped in base 16.
has_0x(s) == Len(s) > 1 /\ s[1] = "0" /\ ToLower(s[2]) = "x"

radix(s, base) ==
    IF base # 0 THEN base
    ELSE IF Len(s) > 0 /\ s[1] = "0"
         THEN (IF has_0x(s) /\ Len(s) > 2 /\ IsHexDigit(s[3]) THEN 16 ELSE 8)
         ELSE 10

skip_0x(s, b) == [s |-> IF b = 16 /\ has_0x(s) THEN Drop(s, 2) ELSE s, base |-> b]

fixup_radix(s, base) == skip_0x(s, radix(s, base))

\* _kstrtoull(): digits, then at most one newline, then the end.
after_newline(rest) ==
    IF Len(rest) > 0 /\ rest[1] = "\n" THEN Drop(rest, 1) ELSE rest

kstrtoull_result(p) ==
    IF p.rv = 0 \/ Len(after_newline(p.rest)) > 0
    THEN [err |-> TRUE, val |-> 0]
    ELSE [err |-> FALSE, val |-> p.val]

parse_fixed(f) == parse_integer(f.s, f.base, 0, 0)

kstrtoull_body(s, base) == kstrtoull_result(parse_fixed(fixup_radix(s, base)))

\* kstrtoint(): one sign, then _kstrtoull().  A text of at most four
\* characters cannot leave the range of int.
negated(r) == [err |-> r.err, val |-> 0 - r.val]

without_plus(s) == IF Len(s) > 0 /\ s[1] = "+" THEN Drop(s, 1) ELSE s

kstrtoint(s, base) ==
    IF Len(s) > 0 /\ s[1] = "-" THEN negated(kstrtoull_body(Drop(s, 1), base))
    ELSE kstrtoull_body(without_plus(s), base)

\* "%d": the decimal digits of v.
RECURSIVE Digits(_)
Digits(n) ==
    IF n < 10 THEN <<HexDigits[n + 1]>>
    ELSE Digits(n \div 10) \o <<HexDigits[(n % 10) + 1]>>

format_d(v) == IF v < 0 THEN <<"-">> \o Digits(0 - v) ELSE Digits(v)

\* The end of set_proc_buf_val: r is what kstrtoint returned.
parsed(r, val) ==
    IF r.err THEN [ret |-> "-EFAULT", val |-> val]
    ELSE [ret |-> "0", val |-> r.val]

\* Mutant of set_proc_buf_val: the text is parsed in base 8.
set_proc_buf_val_octal(buf, fault, val) ==
    IF Len(buf) >= 5 THEN [ret |-> "-EFAULT", val |-> val]
    ELSE IF fault THEN [ret |-> "-EFAULT", val |-> val]
    ELSE parsed(kstrtoint(strstrip(buf), 8), val)

\* Mutant of set_proc_buf_val: a longer write is cut to four bytes.
set_proc_buf_val_cut(buf, fault, val) ==
    IF fault THEN [ret |-> "-EFAULT", val |-> val]
    ELSE parsed(kstrtoint(strstrip(SubSeq(buf, 1, Min(Len(buf), 4))), 0), val)

\* hmbird_sched_proc_main.c:53-73.  buf is the user's buffer (count is its
\* length), fault says that copy_from_user() failed, val is *val before.
set_proc_buf_val(buf, fault, val) ==
    IF Len(buf) >= 5 THEN [ret |-> "-EFAULT", val |-> val]
    ELSE IF fault THEN [ret |-> "-EFAULT", val |-> val]
    ELSE parsed(kstrtoint(strstrip(buf), 0), val)

\* The end of the write handlers: r is what set_proc_buf_val returned.
written(r, val) ==
    IF r.ret # "0" THEN [ret |-> "-EFAULT", val |-> val]
    ELSE [ret |-> "count", val |-> r.val]

\* hmbird_sched_proc_main.c:76-86.  The result is the handler's return
\* value and the new value of the global behind the entry.  The handlers
\* scx_enable_proc_write (102-111), sched_ravg_window_frame_per_sec_proc_write
\* (243-252), cpu_cluster_proc_write (272-281) and slim_walt_ctrl_write
\* (285-294) have the same body.
hmbird_common_write(buf, fault, val) ==
    written(set_proc_buf_val(buf, fault, val), val)

\* hmbird_sched_proc_main.c:257-269.  The buffer is not read and nothing is
\* stored.  policy_found says that cpufreq_cpu_get() returned a policy for
\* every present processor; without one, policy->cpu reads through NULL.
save_gov_str(buf, policy_found, val) ==
    IF policy_found THEN [ret |-> "count", val |-> val]
    ELSE [ret |-> "oops", val |-> val]

\* hmbird_sched_proc_main.c:88-92.
hmbird_common_show(val) == format_d(val) \o <<"\n">>

\* hmbird_sched_proc_main.c:20-49: the globals and their initializers.
TunInit ==
    [scx_enable |-> 0, partial_enable |-> 0, cpuctrl_high_ratio |-> 55,
     cpuctrl_low_ratio |-> 40, slim_stats |-> 0, hmbirdcore_debug |-> 0,
     slim_for_app |-> 0, misfit_ds |-> 90, highres_tick_ctrl |-> 0,
     highres_tick_ctrl_dbg |-> 0, cpu7_tl |-> 70, slim_walt_ctrl |-> 0,
     slim_walt_dump |-> 0, slim_walt_policy |-> 0, slim_gov_debug |-> 0,
     scx_gov_ctrl |-> 1, sched_ravg_window_frame_per_sec |-> 125,
     parctrl_high_ratio |-> 55, parctrl_low_ratio |-> 40,
     parctrl_high_ratio_l |-> 65, parctrl_low_ratio_l |-> 50,
     isoctrl_high_ratio |-> 75, isoctrl_low_ratio |-> 60, isolate_ctrl |-> 0,
     iso_free_rescue |-> 0, heartbeat |-> 0, heartbeat_enable |-> 0,
     watchdog_enable |-> 0, save_gov |-> 0, cpu_cluster_masks |-> 0]

\* hmbird_sched_proc_main.c:313-435: the entries of /proc/hmbird_sched, each
\* with its operations and the global it carries.
HmbirdDirEntries ==
    [scx_enable |-> [ops |-> "scx_enable", data |-> "scx_enable"],
     partial_ctrl |-> [ops |-> "hmbird_common", data |-> "partial_enable"],
     cpuctrl_high |-> [ops |-> "hmbird_common", data |-> "cpuctrl_high_ratio"],
     cpuctrl_low |-> [ops |-> "hmbird_common", data |-> "cpuctrl_low_ratio"],
     slim_stats |-> [ops |-> "hmbird_common", data |-> "slim_stats"],
     hmbirdcore_debug |->
         [ops |-> "hmbird_common", data |-> "hmbirdcore_debug"],
     slim_for_app |-> [ops |-> "hmbird_common", data |-> "slim_for_app"],
     misfit_ds |-> [ops |-> "hmbird_common", data |-> "misfit_ds"],
     scx_shadow_tick_enable |->
         [ops |-> "hmbird_common", data |-> "highres_tick_ctrl"],
     highres_tick_ctrl_dbg |->
         [ops |-> "hmbird_common", data |-> "highres_tick_ctrl_dbg"],
     cpu7_tl |-> [ops |-> "hmbird_common", data |-> "cpu7_tl"],
     cpu_cluster_masks |->
         [ops |-> "cpu_cluster_masks", data |-> "cpu_cluster_masks"],
     save_gov |-> [ops |-> "save_gov", data |-> "save_gov"],
     heartbeat |-> [ops |-> "hmbird_common", data |-> "heartbeat"],
     heartbeat_enable |->
         [ops |-> "hmbird_common", data |-> "heartbeat_enable"],
     watchdog_enable |-> [ops |-> "hmbird_common", data |-> "watchdog_enable"],
     isolate_ctrl |-> [ops |-> "hmbird_common", data |-> "isolate_ctrl"],
     parctrl_high_ratio |->
         [ops |-> "hmbird_common", data |-> "parctrl_high_ratio"],
     parctrl_low_ratio |->
         [ops |-> "hmbird_common", data |-> "parctrl_low_ratio"],
     isoctrl_high_ratio |->
         [ops |-> "hmbird_common", data |-> "isoctrl_high_ratio"],
     isoctrl_low_ratio |->
         [ops |-> "hmbird_common", data |-> "isoctrl_low_ratio"],
     iso_free_rescue |-> [ops |-> "hmbird_common", data |-> "iso_free_rescue"],
     parctrl_high_ratio_l |->
         [ops |-> "hmbird_common", data |-> "parctrl_high_ratio_l"],
     parctrl_low_ratio_l |->
         [ops |-> "hmbird_common", data |-> "parctrl_low_ratio_l"],
     hmbird_stats |-> [ops |-> "hmbird_stats", data |-> ""]]

\* hmbird_sched_proc_main.c:446-464: the entries of slim_walt.
SlimWaltEntries ==
    [slim_walt_ctrl |-> [ops |-> "slim_walt_ctrl", data |-> "slim_walt_ctrl"],
     slim_walt_dump |-> [ops |-> "hmbird_common", data |-> "slim_walt_dump"],
     slim_walt_policy |->
         [ops |-> "hmbird_common", data |-> "slim_walt_policy"],
     frame_per_sec |->
         [ops |-> "sched_ravg_window_frame_per_sec",
          data |-> "sched_ravg_window_frame_per_sec"]]

\* hmbird_sched_proc_main.c:475-482: the entries of slim_freq_gov.
SlimFreqGovEntries ==
    [slim_gov_debug |-> [ops |-> "hmbird_common", data |-> "slim_gov_debug"],
     scx_gov_ctrl |-> [ops |-> "hmbird_common", data |-> "scx_gov_ctrl"]]

ProcEntry(name) ==
    IF name \in DOMAIN HmbirdDirEntries THEN HmbirdDirEntries[name]
    ELSE IF name \in DOMAIN SlimWaltEntries THEN SlimWaltEntries[name]
    ELSE SlimFreqGovEntries[name]

EntryNames ==
    DOMAIN HmbirdDirEntries \cup DOMAIN SlimWaltEntries
        \cup DOMAIN SlimFreqGovEntries

\* The names callers use: every entry, and one that is never created.
CallerNames == EntryNames \cup {"performance_threshold"}

NoPobs == [op |-> "", name |-> "", buf |-> <<>>, ret |-> "", out |-> <<>>]

\* hmbird_sched_proc_main.c:299-486.  failed names the proc_mkdir() call
\* that returned NULL, if one did; the entries made before it stay.
hmbird_proc_init ==
    \E failed \in {"", "hmbird_sched", "slim_walt", "slim_freq_gov"} :
        /\ proc_status = ""
        /\ proc_entries' =
               IF failed = "hmbird_sched" THEN {}
               ELSE IF failed = "slim_walt" THEN DOMAIN HmbirdDirEntries
               ELSE IF failed = "slim_freq_gov"
                    THEN DOMAIN HmbirdDirEntries \cup DOMAIN SlimWaltEntries
               ELSE EntryNames
        /\ proc_status' = IF failed = "" THEN "0" ELSE "-ENOMEM"
        /\ pobs' = [NoPobs EXCEPT !.op = "init",
                                  !.ret = IF failed = "" THEN "0" ELSE "-ENOMEM"]
        /\ UNCHANGED <<tun, nwrites>>

\* The write operation of the entry, by the proc_ops it was created with.
\* hmbird_stats is created without one.
entry_write(ops, buf, fault, val) ==
    IF ops = "save_gov" THEN save_gov_str(buf, ~fault, val)
    ELSE IF ops = "hmbird_stats" THEN [ret |-> "-EIO", val |-> val]
    ELSE hmbird_common_write(buf, fault, val)

\* The global behind an entry, before the write.
entry_value(e) == IF e.data = "" THEN 0 ELSE tun[e.data]

\* The effect of a write on the entry e that returned r.
ProcWritten(name, buf, e, r) ==
    /\ pobs' = [NoPobs EXCEPT !.op = "write", !.name = name, !.buf = buf,
                              !.ret = r.ret]
    /\ tun' = IF e.data = "" THEN tun ELSE [tun EXCEPT ![e.data] = r.val]

ProcWriteEntry(name, buf, fault, e) ==
    ProcWritten(name, buf, e, entry_write(e.ops, buf, fault, entry_value(e)))

\* A caller writes buf to the entry called name.  fault is the failure of
\* the kernel service the handler relies on: copy_from_user(), and for
\* save_gov cpufreq_cpu_get().
ProcWrite ==
    \E name \in CallerNames, buf \in WriteTexts, fault \in BOOLEAN :
        /\ proc_status # ""
        /\ nwrites < MaxWrites
        /\ nwrites' = nwrites + 1
        /\ IF name \notin proc_entries
           THEN /\ pobs' = [NoPobs EXCEPT !.op = "write", !.name = name,
                                          !.buf = buf, !.ret = "-ENOENT"]
                /\ UNCHANGED tun
           ELSE ProcWriteEntry(name, buf, fault, ProcEntry(name))
        /\ UNCHANGED <<proc_status, proc_entries>>

\* A caller reads the entry called name (the statistics report apart).
ProcRead ==
    \E name \in CallerNames \ {"hmbird_stats"} :
        /\ proc_status # ""
        /\ pobs' = IF name \notin proc_entries
                   THEN [NoPobs EXCEPT !.op = "read", !.name = name,
                                       !.ret = "-ENOENT"]
                   ELSE [NoPobs EXCEPT !.op = "read", !.name = name,
                            !.ret = "0",
                            !.out = hmbird_common_show(tun[ProcEntry(name).data])]
        /\ UNCHANGED <<proc_status, proc_entries, tun, nwrites>>

(***************************************************************************)
(* The statistics report.  A report is a record with one field per line or *)
(* per group of lines; a line of several numbers is a tuple.               *)
(***************************************************************************)

\* hmbird_sched_proc_main.c:148-155, 160-168, 171-180, 183-191: the rows of
\* the fixed-width tables.  Row i is filled when i < online_cpus && i <
\* NR_CPUS, from cpu_rq(i).
row_filled(i, online_cpus) == i < online_cpus /\ i < MaxCpus

gdsq_cnt(online_cpus, rq, sw) ==
    [i \in 0 .. 9 |-> IF row_filled(i, online_cpus)
                      THEN <<rq[i], sw[i] % 65536>> ELSE <<0, 0>>]

pcp_timeout_cnt(online_cpus, rq, current_time) ==
    [i \in 0 .. 7 |-> IF row_filled(i, online_cpus)
                      THEN (IF rq[i] > 0 THEN current_time % 1000 ELSE 0)
                      ELSE 0]

pcp_ldsq_cnt(online_cpus, rq, current_time) ==
    [i \in 0 .. 7 |-> IF row_filled(i, online_cpus)
                      THEN <<rq[i], (current_time \div 1024) % 100>>
                      ELSE <<0, 0>>]

pcp_enql_cnt(online_cpus, sw) ==
    [i \in 0 .. 7 |-> IF row_filled(i, online_cpus)
                      THEN (sw[i] \div 256) % 256 ELSE 0]

\* hmbird_sched_proc_main.c:194-200, 207-208, 227-230: the globals printed,
\* by the label of their line.
stats_tunables(t) ==
    [SCX_Enabled |-> t.scx_enable,
     Partial_Enable |-> t.partial_enable,
     Slim_Stats |-> t.slim_stats,
     Heartbeat |-> t.heartbeat,
     Misfit_DS |-> t.misfit_ds,
     Highres_Tick_Ctrl |-> t.highres_tick_ctrl,
     Watchdog_Enable |-> t.watchdog_enable,
     Sched_Ravg_Window_Frame_Per_Sec |-> t.sched_ravg_window_frame_per_sec,
     CPU_Control_High_Ratio |-> t.cpuctrl_high_ratio,
     CPU_Control_Low_Ratio |-> t.cpuctrl_low_ratio,
     Isolation_Control |-> t.isolate_ctrl,
     Governor_Control |-> t.scx_gov_ctrl]

\* hmbird_sched_proc_main.c:218-224: one line per online processor below 8.
cpu_load_lines(online, rq, sw) ==
    [c \in {x \in online : x < 8} |-> <<rq[c], sw[c] % 16777216>>]

\* The middle of the report, from the totals computed at its head.
stats_report(online, rq, sw, current_time, t, running, switches, avg) ==
    [global_stat |-> <<running, current_time>>,
     cpu_allow_fail |-> <<0, Cardinality(online)>>,
     rt_cnt |-> <<switches, avg>>,
     gdsq_cnt |-> gdsq_cnt(Cardinality(online), rq, sw),
     pcp_timeout_cnt |-> pcp_timeout_cnt(Cardinality(online), rq, current_time),
     pcp_ldsq_cnt |-> pcp_ldsq_cnt(Cardinality(online), rq, current_time),
     pcp_enql_cnt |-> pcp_enql_cnt(Cardinality(online), sw),
     tunables |-> stats_tunables(t),
     Total_Online_CPUs |-> Cardinality(online),
     Total_Running_Tasks |-> running,
     Average_Load_Per_CPU |-> avg,
     Total_Context_Switches |-> switches,
     System_Uptime_Ticks |-> current_time \div 1048576,
     cpu_load |-> cpu_load_lines(online, rq, sw)]

\* hmbird_sched_proc_main.c:117-233.  The lines that print constants, and
\* the two that print scx_exit_type and scx_nr_rejected (defined outside the
\* two files), are left out of the record.
hmbird_stats_proc_show(online, rq, sw, current_time, t) ==
    stats_report(online, rq, sw, current_time, t,
                 SumOver(rq, online), SumOver(sw, online),
                 IF Cardinality(online) > 0
                 THEN SumOver(rq, online) \div Cardinality(online) ELSE 0)

\* Mutant of StatsRead: the report takes its sample through an optimizer
\* pass.
StatsRead_pass ==
    /\ "hmbird_stats" \in proc_entries
    /\ pobs' = [NoPobs EXCEPT !.op = "read", !.name = "hmbird_stats",
                   !.ret = "0",
                   !.out = hmbird_stats_proc_show(cpu_online, nr_running,
                               nr_switches, clock, tun)]
    /\ \E me \in cpu_online :
          ApplyPass(optimize_cpu_performance("hotplug",
              policy_optimization_enabled, cpu_performance_threshold,
              load_balance_interval, last_optimization_time,
              notifier_registered, cpu_online, me))
    /\ UNCHANGED <<policy_optimization_enabled, load_balance_interval,
                   notifier_registered, phase, clock, cpu_online, nr_running,
                   proc_status, proc_entries, tun, nwrites, nr_switches>>

\* A caller reads /proc/hmbird_sched/hmbird_stats.
StatsRead ==
    /\ "hmbird_stats" \in proc_entries
    /\ pobs' = [NoPobs EXCEPT !.op = "read", !.name = "hmbird_stats",
                   !.ret = "0",
                   !.out = hmbird_stats_proc_show(cpu_online, nr_running,
                               nr_switches, clock, tun)]
    /\ obs' = NoObs
    /\ UNCHANGED <<policy_state, notifier_registered, phase, clock, cpu_online,
                   nr_running, proc_status, proc_entries, tun, nwrites,
                   nr_switches>>

(***************************************************************************)
(* The handlers of build_policy.c statement by statement, for the          *)
(* executions in which two contexts are inside them at once.  The insmod   *)
(* thread runs build_policy_init; once register_cpu_notifier() has         *)
(* returned, a hotplug operation started on another processor calls        *)
(* policy_cpu_callback while build_policy_init goes on.  The code takes no *)
(* lock.  (build_policy_exit unregisters before its pass, which waits for  *)
(* a hotplug operation in progress, so its pass overlaps with no callback.)*)
(*                                                                         *)
(* Positions: "idle" outside the handler; "enter" before line 91; "gate"   *)
(* before the test of line 97, current_time read; "stamp" before the       *)
(* write of line 100; "sample" before lines 103-132; "disable" before      *)
(* line 212 of build_policy_exit; "done" after                              *)
(* the handler of the insmod or rmmod thread has returned.                  *)
(***************************************************************************)
Contexts == {"insmod", "hotplug", "rmmod"}

\* What the observation calls the handler of a context, and what the
\* handler returns.
ctx_op(x) == IF x = "insmod" THEN "init" ELSE IF x = "rmmod" THEN "exit" ELSE x

ctx_ret(x) ==
    IF x = "insmod" THEN "0" ELSE IF x = "rmmod" THEN "" ELSE "NOTIFY_OK"

Idle == [pc |-> "idle", now |-> 0, me |-> 0, down |-> NoCpu]

NoneInFlight == [x \in Contexts |-> Idle]

\* The variables the statement-level actions leave alone.
conc_frame ==
    /\ pobs' = NoPobs
    /\ UNCHANGED <<prev_call_time, proc_status, proc_entries, tun, nwrites,
                   nr_switches>>

\* build_policy.c:163-190: build_policy_init up to its optimizer call.
init_register ==
    \E ret \in {"0", "-ENOMEM"}, me \in cpu_online :
        /\ phase = "unloaded"
        /\ IF ret # "0"
           THEN /\ phase' = "failed"
                /\ obs' = [NoObs EXCEPT !.op = "init", !.ret = ret]
                /\ UNCHANGED <<cpu_performance_threshold, load_balance_interval,
                               notifier_registered, inflight>>
           ELSE /\ notifier_registered' = TRUE
                /\ cpu_performance_threshold' =
                       init_parameters(Cardinality(cpu_online)).threshold
                /\ load_balance_interval' =
                       init_parameters(Cardinality(cpu_online)).interval
                /\ phase' = "running"
                /\ obs' = NoObs
                /\ inflight' = [inflight EXCEPT
                       !["insmod"] = [Idle EXCEPT !.pc = "enter", !.me = me]]
        /\ UNCHANGED <<policy_optimization_enabled, last_optimization_time,
                       clock, cpu_online, nr_running>>
        /\ conc_frame

\* build_policy.c:135-147, 148-152: a CPU_ONLINE or CPU_DOWN_PREPARE
\* notification reaches policy_cpu_callback.  Hotplug operations exclude
\* each other.
hotplug_notify ==
    /\ notifier_registered
    /\ inflight["hotplug"].pc = "idle"
    /\ \/ \E c \in CPUS \ cpu_online : \E me \in cpu_online \cup {c} :
             /\ cpu_online' = cpu_online \cup {c}
             /\ inflight' = [inflight EXCEPT
                    !["hotplug"] = [Idle EXCEPT !.pc = "enter", !.me = me]]
       \/ \E c \in cpu_online, me \in cpu_online :
             /\ Cardinality(cpu_online) > 1
             /\ UNCHANGED cpu_online
             /\ inflight' = [inflight EXCEPT
                    !["hotplug"] = [Idle EXCEPT !.pc = "enter", !.me = me,
                                                !.down = c]]
    /\ obs' = NoObs
    /\ UNCHANGED <<policy_state, notifier_registered, phase, clock, nr_running>>
    /\ conc_frame

\* build_policy.c:91: current_time = sched_clock().
opt_enter(x) ==
    /\ inflight[x].pc = "enter"
    /\ inflight' = [inflight EXCEPT ![x].pc = "gate", ![x].now = clock]
    /\ obs' = NoObs
    /\ UNCHANGED <<policy_state, notifier_registered, phase, clock, cpu_online,
                   nr_running>>
    /\ conc_frame

\* The handler returns: build_policy_init to the loader, the callback to
\* the hotplug core, which then takes a processor going down off the mask.
returned(x) ==
    /\ inflight' = [inflight EXCEPT
           ![x] = [Idle EXCEPT !.pc = IF x = "hotplug" THEN "idle" ELSE "done"]]
    /\ cpu_online' = cpu_online \ {inflight[x].down}
    /\ nr_running' = [c \in AllCpus |->
                         IF c = inflight[x].down THEN 0 ELSE nr_running[c]]

\* build_policy.c:97-99: the rate-limit test, and the return it leads to.
opt_gate(x) ==
    /\ inflight[x].pc = "gate"
    /\ IF rate_limited(inflight[x].now, last_optimization_time,
                       load_balance_interval)
       THEN /\ returned(x)
            /\ obs' = [NoObs EXCEPT
                   !.op = ctx_op(x), !.pass = "gated", !.ret = ctx_ret(x)]
       ELSE /\ inflight' = [inflight EXCEPT ![x].pc = "stamp"]
            /\ obs' = NoObs
            /\ UNCHANGED <<cpu_online, nr_running>>
    /\ UNCHANGED <<policy_state, notifier_registered, phase, clock>>
    /\ conc_frame

\* build_policy.c:100: last_optimization_time = current_time.
opt_stamp(x) ==
    /\ inflight[x].pc = "stamp"
    /\ last_optimization_time' = inflight[x].now
    /\ inflight' = [inflight EXCEPT ![x].pc = "sample"]
    /\ obs' = NoObs
    /\ UNCHANGED <<policy_optimization_enabled, cpu_performance_threshold,
                   load_balance_interval, notifier_registered, phase, clock,
                   cpu_online, nr_running>>
    /\ conc_frame

\* build_policy.c:103-132: sampling, fan-out and adjustment, then the
\* return.
opt_sample(x) ==
    /\ inflight[x].pc = "sample"
    /\ cpu_performance_threshold' =
           adjust_threshold(cpu_performance_threshold,
                            total_load(cpu_online, nr_running),
                            Cardinality(cpu_online))
    /\ obs' = [NoObs EXCEPT
           !.op = ctx_op(x),
           !.pass = "ran",
           !.cpu = inflight[x].me,
           !.enabled = policy_optimization_enabled,
           !.registered = notifier_registered,
           !.sampled = cpu_online,
           !.overloaded = overloaded_cpus(cpu_online, nr_running),
           !.triggered = need_kick(policy_optimization_enabled, cpu_online,
                                   nr_running),
           !.ipi = IF need_kick(policy_optimization_enabled, cpu_online,
                                nr_running)
                   THEN kick_all(cpu_online, inflight[x].me) ELSE NoIpi,
           !.ret = ctx_ret(x)]
    /\ returned(x)
    /\ UNCHANGED <<policy_optimization_enabled, load_balance_interval,
                   last_optimization_time, notifier_registered, phase, clock>>
    /\ conc_frame

\* Mutant of exit_unregister: the flag is cleared first and the notifier
\* stays registered through the final pass.
exit_unregister_late ==
    \E me \in cpu_online :
        /\ phase = "running"
        /\ \A x \in Contexts : inflight[x].pc \in {"idle", "done"}
        /\ policy_optimization_enabled' = FALSE
        /\ phase' = "stopping"
        /\ inflight' = [inflight EXCEPT
               !["rmmod"] = [Idle EXCEPT !.pc = "disable", !.me = me]]
        /\ obs' = NoObs
        /\ UNCHANGED <<notifier_registered, cpu_performance_threshold,
                       load_balance_interval, last_optimization_time, clock,
                       cpu_online, nr_running>>
        /\ conc_frame

\* build_policy.c:202-209: build_policy_exit up to and with
\* unregister_cpu_notifier(), which waits for a hotplug operation in
\* progress.
exit_unregister ==
    \E me \in cpu_online :
        /\ phase = "running"
        /\ \A x \in Contexts : inflight[x].pc \in {"idle", "done"}
        /\ notifier_registered' = FALSE
        /\ phase' = "stopping"
        /\ inflight' = [inflight EXCEPT
               !["rmmod"] = [Idle EXCEPT !.pc = "disable", !.me = me]]
        /\ obs' = NoObs
        /\ UNCHANGED <<policy_state, clock, cpu_online, nr_running>>
        /\ conc_frame

\* build_policy.c:212: policy_optimization_enabled = false; the call of
\* line 213 follows.
exit_disable ==
    /\ inflight["rmmod"].pc = "disable"
    /\ policy_optimization_enabled' = FALSE
    /\ inflight' = [inflight EXCEPT !["rmmod"].pc = "enter"]
    /\ obs' = NoObs
    /\ UNCHANGED <<cpu_performance_threshold, load_balance_interval,
                   last_optimization_time, notifier_registered, phase, clock,
                   cpu_online, nr_running>>
    /\ conc_frame

(***************************************************************************)
(* The initial state: the statics of both files, one boot processor.       *)
(***************************************************************************)
Init ==
    /\ policy_optimization_enabled = TRUE
    /\ cpu_performance_threshold = 80
    /\ load_balance_interval = 100
    /\ last_optimization_time = 0
    /\ notifier_registered = FALSE
    /\ phase = "unloaded"
    /\ clock = 0
    /\ cpu_online = {0}
    /\ nr_running = [c \in AllCpus |-> 0]
    /\ obs = NoObs
    /\ prev_call_time = NoTime
    /\ proc_status = ""
    /\ proc_entries = {}
    /\ tun = TunInit
    /\ nwrites = 0
    /\ pobs = NoPobs
    /\ nr_switches = [c \in AllCpus |-> 0]
    /\ inflight = NoneInFlight

(***************************************************************************)
(* Specifications.                                                         *)
(*                                                                         *)
(* Spec      the optimizer and its environment                             *)
(* SpecRate  the same, with the time of the previous invocation followed   *)
(* SpecBoot  startup on machines of every size                             *)
(* SpecProc  the /proc entries                                             *)
(***************************************************************************)
\* A step that is no /proc operation.
ProcQuiet ==
    /\ pobs' = NoPobs
    /\ UNCHANGED <<proc_status, proc_entries, tun, nwrites, nr_switches,
                   inflight>>

NoHistory == UNCHANGED prev_call_time /\ ProcQuiet

\* The history variable: the clock of the last optimizer invocation.
Track ==
    /\ prev_call_time' = IF obs'.pass = "none" THEN prev_call_time ELSE clock
    /\ ProcQuiet

Next ==
    \/ Tick /\ NoHistory
    \/ Schedule /\ NoHistory
    \/ CpuUp /\ NoHistory
    \/ CpuDown /\ NoHistory
    \/ CpuOtherEvent /\ NoHistory
    \/ build_policy_init /\ NoHistory
    \/ build_policy_exit /\ NoHistory
    \/ module_param_write /\ NoHistory

Spec == Init /\ [][Next]_vars

NextRate ==
    \/ Tick /\ Track
    \/ Schedule /\ Track
    \/ CpuUp /\ Track
    \/ CpuDown /\ Track
    \/ CpuOtherEvent /\ Track
    \/ build_policy_init /\ Track
    \/ build_policy_exit /\ Track
    \/ module_param_write /\ Track

SpecRate == Init /\ [][NextRate]_vars

NextProc ==
    \/ hmbird_proc_init /\ UNCHANGED <<policy_vars, prev_call_time, nr_switches, inflight>>
    \/ ProcWrite /\ UNCHANGED <<policy_vars, prev_call_time, nr_switches, inflight>>
    \/ ProcRead /\ UNCHANGED <<policy_vars, prev_call_time, nr_switches, inflight>>
    \/ StatsRead /\ UNCHANGED <<prev_call_time, inflight>>

SpecProc == Init /\ [][NextProc]_vars

(***************************************************************************)
(* Startup on machines of every size: the module is loaded with processors *)
(* 0 .. n-1 online, every one of them running the same number of tasks, at *)
(* any tick of the clock.  No hotplug happens in this specification.       *)
(***************************************************************************)
InitBoot ==
    /\ policy_optimization_enabled = TRUE
    /\ cpu_performance_threshold = 80
    /\ load_balance_interval = 100
    /\ last_optimization_time = 0
    /\ notifier_registered = FALSE
    /\ phase = "unloaded"
    /\ clock = 0
    /\ \E n \in 1 .. MaxCpus, v \in LoadValues :
          /\ cpu_online = 0 .. (n - 1)
          /\ nr_running = [c \in AllCpus |-> IF c < n THEN v ELSE 0]
    /\ obs = NoObs
    /\ prev_call_time = NoTime
    /\ proc_status = ""
    /\ proc_entries = {}
    /\ tun = TunInit
    /\ nwrites = 0
    /\ pobs = NoPobs
    /\ nr_switches = [c \in AllCpus |-> 0]
    /\ inflight = NoneInFlight

NextBoot ==
    \/ Tick /\ NoHistory
    \/ build_policy_init /\ NoHistory
    \/ module_param_write /\ NoHistory

SpecBoot == InitBoot /\ [][NextBoot]_vars

\* The two contexts, statement by statement.
NextConc ==
    \/ Tick /\ NoHistory
    \/ Schedule /\ NoHistory
    \/ init_register
    \/ hotplug_notify
    \/ \E x \in Contexts : opt_enter(x)
    \/ \E x \in Contexts : opt_gate(x)
    \/ \E x \in Contexts : opt_stamp(x)
    \/ \E x \in Contexts : opt_sample(x)

SpecConc == Init /\ [][NextConc]_vars

\* Shutdown statement by statement, after a startup and hotplug events
\* taken whole.
NextStop ==
    \/ Tick /\ NoHistory
    \/ Schedule /\ NoHistory
    \/ CpuUp /\ NoHistory
    \/ build_policy_init /\ NoHistory
    \/ exit_unregister
    \/ exit_disable
    \/ opt_enter("rmmod")
    \/ opt_gate("rmmod")
    \/ opt_stamp("rmmod")
    \/ opt_sample("rmmod")

SpecStop == Init /\ [][NextStop]_vars

(***************************************************************************)
(* The statistics report on machines in every state: any processors of     *)
(* CPUS online, tasks and context switches on them, tunables at their      *)
(* defaults or written.                                                    *)
(***************************************************************************)
StatLoads == {1, 5}             \* rq->nr_running of an online processor
SwitchValues == {0, 70000}      \* rq->nr_switches of a processor

\* The globals after writes to misfit_ds, scx_enable and cpu7_tl.
TunWritten ==
    [TunInit EXCEPT !.misfit_ds = 12, !.scx_enable = 1, !.cpu7_tl = 77]

InitStats ==
    /\ policy_optimization_enabled = TRUE
    /\ cpu_performance_threshold = 80
    /\ load_balance_interval = 100
    /\ last_optimization_time = 0
    /\ notifier_registered = FALSE
    /\ phase = "unloaded"
    /\ clock = 0
    /\ cpu_online \in (SUBSET CPUS) \ {{}}
    /\ \E f \in [CPUS -> StatLoads] :
          nr_running = [c \in AllCpus |-> IF c \in cpu_online THEN f[c] ELSE 0]
    /\ \E g \in [CPUS -> SwitchValues] :
          nr_switches = [c \in AllCpus |-> IF c \in CPUS THEN g[c] ELSE 0]
    /\ obs = NoObs
    /\ prev_call_time = NoTime
    /\ proc_status = ""
    /\ proc_entries = {}
    /\ tun \in {TunInit, TunWritten}
    /\ nwrites = 0
    /\ pobs = NoPobs
    /\ inflight = NoneInFlight

NextStats ==
    \/ Tick /\ NoHistory
    \/ build_policy_init /\ NoHistory
    \/ hmbird_proc_init /\ UNCHANGED <<policy_vars, prev_call_time, nr_switches, inflight>>
    \/ StatsRead /\ UNCHANGED <<prev_call_time, inflight>>

SpecStats == InitStats /\ [][NextStats]_vars

(***************************************************************************)
(* Vocabulary of the properties.                                           *)
(***************************************************************************)

\* The online mask while the handler of this step ran: CpuUp adds the
\* processor before the notification, CpuDown removes it after.
OnlineDuring == cpu_online \cup cpu_online'

\* The three-tier table of the startup section, restated.
TierThreshold(n) == IF n >= 8 THEN 85 ELSE IF n >= 4 THEN 75 ELSE 70
TierInterval(n) == IF n >= 8 THEN 50 ELSE IF n >= 4 THEN 75 ELSE 100

\* The adjustment rule, restated: old threshold, N processors, total T.
Adjusted(old, N, T) ==
    IF T > 3 * N THEN (IF old + 5 < 95 THEN old + 5 ELSE 95)
    ELSE IF T < N THEN (IF old - 5 > 50 THEN old - 5 ELSE 50)
    ELSE old

StartupDone == obs.op = "init" /\ obs.ret = "0"

(***************************************************************************)
(* C1                                                                      *)
(***************************************************************************)

C2_ThresholdRange ==
    cpu_performance_threshold >= 50 /\ cpu_performance_threshold <= 95

(***************************************************************************)
(* C3                                                                      *)
(***************************************************************************)

C5_StopSilent ==
    phase = "exited"
    => /\ obs.ipi = NoIpi
       /\ ~obs.triggered
       /\ ~policy_optimization_enabled
       /\ obs.pass # "none" => (obs.op = "exit" /\ ~obs.enabled)

\* C5 witness: the final pass of onStop ran and found a processor
\* overloaded.
C5_Witness ==
    /\ phase = "exited"
    /\ obs.op = "exit"
    /\ obs.pass = "ran"
    /\ obs.overloaded # {}
    /\ Cardinality(cpu_online) > 1

(***************************************************************************)
(* C6                                                                      *)
(***************************************************************************)

\* C6 as stated: when onStart has completed, (performance_threshold,
\* balance_interval_ms) is exactly the table's pair for the processor count.
C6_ExactTable ==
    StartupDone
    => /\ cpu_performance_threshold = TierThreshold(Cardinality(cpu_online))
       /\ load_balance_interval = TierInterval(Cardinality(cpu_online))

\* C6 as amended: when onStart has completed, balance_interval_ms is the
\* table's value, and performance_threshold is the table's value moved by
\* the startup pass: by +5 if that pass got through the gate with T > 3N,
\* by -5 if it got through with T < N, and not at all otherwise.
C6_TableThenPass ==
    StartupDone
    => LET N == Cardinality(cpu_online)
           T == SumOver(nr_running, cpu_online)
       IN  /\ load_balance_interval = TierInterval(N)
           /\ cpu_performance_threshold =
                  IF obs.pass = "ran" THEN Adjusted(TierThreshold(N), N, T)
                  ELSE TierThreshold(N)

\* C6 witness: startup on eight processors whose pass raised the threshold.
C6_Witness ==
    /\ StartupDone
    /\ Cardinality(cpu_online) = 8
    /\ obs.pass = "ran"
    /\ cpu_performance_threshold = 90
    /\ load_balance_interval = 50

(***************************************************************************)
(* C7                                                                      *)
(***************************************************************************)

\* C7: a startup that registered its notifier has performed one effective
\* optimizer pass, whatever the clock was.
C7_StartupPassRuns ==
    StartupDone => obs.pass = "ran"

(***************************************************************************)
(* Decimal text, as the properties of the tunables read it: white space at *)
(* both ends, one optional sign, then decimal digits only.                 *)
(***************************************************************************)
DecimalDigits == {"0", "1", "2", "3", "4", "5", "6", "7", "8", "9"}

Trimmed(t) ==
    LET inner == {i \in 1 .. Len(t) : t[i] \notin {" ", "\n", "\t"}}
    IN  IF inner = {} THEN <<>>
        ELSE SubSeq(t, CHOOSE i \in inner : \A j \in inner : i <= j,
                       CHOOSE i \in inner : \A j \in inner : i >= j)

Unsigned(t) ==
    IF Len(Trimmed(t)) > 0 /\ Trimmed(t)[1] \in {"+", "-"}
    THEN SubSeq(Trimmed(t), 2, Len(Trimmed(t)))
    ELSE Trimmed(t)

IsNegative(t) == Len(Trimmed(t)) > 0 /\ Trimmed(t)[1] = "-"

IsDecimalText(t) ==
    /\ Len(Unsigned(t)) > 0
    /\ \A i \in 1 .. Len(Unsigned(t)) : Unsigned(t)[i] \in DecimalDigits

IsHexText(t) ==
    /\ Len(Unsigned(t)) > 2
    /\ Unsigned(t)[1] = "0"
    /\ Unsigned(t)[2] \in {"x", "X"}
    /\ \A i \in 3 .. Len(Unsigned(t)) :
           Unsigned(t)[i] \in DecimalDigits
               \cup {"a", "b", "c", "d", "e", "f", "A", "B", "C", "D", "E", "F"}

HasLeadingZero(t) == Len(Unsigned(t)) > 1 /\ Unsigned(t)[1] = "0"

DecimalDigit(ch) ==
    CHOOSE d \in 0 .. 9 : <<"0", "1", "2", "3", "4", "5", "6", "7", "8", "9">>[d + 1] = ch

RECURSIVE DecimalMagnitude(_)
DecimalMagnitude(u) ==
    IF Len(u) = 0 THEN 0
    ELSE 10 * DecimalMagnitude(SubSeq(u, 1, Len(u) - 1)) + DecimalDigit(u[Len(u)])

DecimalValue(t) ==
    IF IsNegative(t) THEN 0 - DecimalMagnitude(Unsigned(t))
    ELSE DecimalMagnitude(Unsigned(t))

\* A write that returned success, followed at once by a read of the same
\* name.
WriteThenRead ==
    /\ pobs.op = "write"
    /\ pobs.ret = "count"
    /\ pobs'.op = "read"
    /\ pobs'.name = pobs.name

\* A write to a name that no entry carries fails and changes no tunable.
UnknownNameFrame ==
    (pobs'.op = "write" /\ pobs'.name \notin proc_entries)
    => (pobs'.ret = "-ENOENT" /\ tun' = tun)

(***************************************************************************)
(* C8                                                                      *)
(***************************************************************************)

Rejected == pobs'.ret # "count" /\ pobs'.ret # "0" /\ tun' = tun

C10_OptimizerStateFrame ==
    [][policy_state' # policy_state
       => obs'.op \in {"init", "exit", "hotplug"}]_vars

(***************************************************************************)
(* C11                                                                     *)
(***************************************************************************)

\* The step produced a statistics report.
Reported == pobs'.op = "read" /\ pobs'.name = "hmbird_stats"

\* C11: producing the statistics report is a pure read: every tunable, every
\* OptimizerState field and the run-queue counters keep their values, the
\* online mask too, no optimizer pass runs and no rebalance signal is sent.
C11_ReportPure ==
    [][Reported
       => /\ tun' = tun
          /\ policy_state' = policy_state
          /\ nr_running' = nr_running
          /\ nr_switches' = nr_switches
          /\ cpu_online' = cpu_online
          /\ obs'.pass = "none"
          /\ obs'.ipi = NoIpi]_vars

\* C11 witness: a report was produced after startup, with written tunables,
\* an overloaded processor and the rate-limit interval elapsed, where an
\* optimizer pass would have adjusted the threshold and signalled.
C11_Witness ==
    /\ pobs.op = "read"
    /\ pobs.name = "hmbird_stats"
    /\ phase = "running"
    /\ tun # TunInit
    /\ Cardinality(cpu_online) > 1
    /\ \E c \in cpu_online : nr_running[c] > 2 * Cardinality(cpu_online)
    /\ clock - last_optimization_time >= load_balance_interval * NSEC_PER_MSEC

(***************************************************************************)
(* C12                                                                     *)
(***************************************************************************)

\* The line of the report that carries each entry's value, for the entries
\* that have one.
ReportLabel ==
    [scx_enable |-> "SCX_Enabled", partial_ctrl |-> "Partial_Enable",
     slim_stats |-> "Slim_Stats", heartbeat |-> "Heartbeat",
     misfit_ds |-> "Misfit_DS", scx_shadow_tick_enable |-> "Highres_Tick_Ctrl",
     watchdog_enable |-> "Watchdog_Enable",
     frame_per_sec |-> "Sched_Ravg_Window_Frame_Per_Sec",
     cpuctrl_high |-> "CPU_Control_High_Ratio",
     cpuctrl_low |-> "CPU_Control_Low_Ratio",
     isolate_ctrl |-> "Isolation_Control", scx_gov_ctrl |-> "Governor_Control"]

IsReport == pobs.op = "read" /\ pobs.name = "hmbird_stats"

\* The report in pobs shows the current value of the entry called name.
Shows(name) ==
    /\ name \in DOMAIN ReportLabel
    /\ ReportLabel[name] \in DOMAIN pobs.out.tunables
    /\ pobs.out.tunables[ReportLabel[name]] = tun[ProcEntry(name).data]

\* C12: every statistics report contains the current value of every
\* registered tunable and the current performance_threshold (so the report
\* that follows a successful write shows the value written).
C12_ReportComplete ==
    IsReport
    => /\ \A name \in proc_entries \ {"hmbird_stats"} : Shows(name)
       /\ "Performance_Threshold" \in DOMAIN pobs.out.tunables
       /\ pobs.out.tunables["Performance_Threshold"] = cpu_performance_threshold

(***************************************************************************)
(* C13                                                                     *)
(***************************************************************************)

\* The context is past the rate-limit gate and has not returned.
PastGate(x) == inflight[x].pc \in {"stamp", "sample"}

\* C13: optimizer passes are serialized: at no time are two invocations,
\* arriving from different execution contexts, both past the rate-limit
\* gate.
C13_Serialized ==
    ~(PastGate("insmod") /\ PastGate("hotplug"))

(***************************************************************************)
(* C14                                                                     *)
(***************************************************************************)

\* onStop is inside its final optimizer pass.
InFinalPass == inflight["rmmod"].pc \in {"enter", "gate", "stamp", "sample"}

C15_Adapter ==
    [][/\ (notifier_registered /\ cpu_online' # cpu_online)
          => /\ obs'.op = "hotplug"
             /\ obs'.ret = "NOTIFY_OK"
             /\ obs'.pass \in {"gated", "ran"}
             /\ obs'.pass = "gated" => UNCHANGED policy_state
             /\ obs'.pass = "ran"
                => /\ last_optimization_time' = clock
                   /\ cpu_performance_threshold' =
                          Adjusted(cpu_performance_threshold,
                                   Cardinality(OnlineDuring),
                                   SumOver(nr_running, OnlineDuring))
       /\ (obs'.ret = "NOTIFY_OK" /\ cpu_online' = cpu_online)
          => /\ obs'.pass = "none"
             /\ obs'.op = ""
             /\ obs'.ipi = NoIpi
             /\ obs'.sampled = {}
             /\ UNCHANGED <<policy_state, notifier_registered, phase,
                            nr_running, clock>>]_vars

\* C15 witness: an event of another kind was delivered when an optimizer
\* pass would have got through the gate and signalled.
C15_Witness ==
    /\ obs.ret = "NOTIFY_OK"
    /\ obs.pass = "none"
    /\ notifier_registered
    /\ policy_optimization_enabled
    /\ clock - last_optimization_time >= load_balance_interval * NSEC_PER_MSEC
    /\ Cardinality(cpu_online) > 1
    /\ \E c \in cpu_online : nr_running[c] > 2 * Cardinality(cpu_online)

(***************************************************************************)
(* C16                                                                     *)
(***************************************************************************)

\* A step without a hotplug event in which an optimizer pass gets through
\* the gate.
TimerPass == NextBoot /\ obs'.pass = "ran"

\* C16: between startup and shutdown, with no hotplug event at all, once
\* balance_interval_ms has elapsed since the last effective pass (one has
\* run: the timestamp is no longer its initial 0) the
\* periodic timer can run an optimizer pass: a step that runs one is
\* enabled.
C16_TimerFeeds ==
    (/\ phase = "running"
     /\ last_optimization_time > 0
     /\ load_balance_interval >= 0
     /\ clock - last_optimization_time >= load_balance_interval * NSEC_PER_MSEC)
    => ENABLED TimerPass

(***************************************************************************)
(* C17                                                                     *)
(***************************************************************************)

\* onStart is called: the step from the unloaded module to its result.
StartupStep == phase = "unloaded" /\ obs'.op = "init"

\* An aborted onStart: the error goes back to the caller, nothing is
\* registered, no pass runs, nobody is sampled or signalled.
AbortedStartup ==
    /\ phase' = "failed"
    /\ obs'.ret # "0"
    /\ ~notifier_registered'
    /\ obs'.pass = "none"
    /\ obs'.sampled = {}
    /\ obs'.ipi = NoIpi
    /\ last_optimization_time' = last_optimization_time
    /\ policy_optimization_enabled' = policy_optimization_enabled

Distance(a, b) == IF a >= b THEN a - b ELSE b - a

\* C18: a pass that gets through the gate leaves performance_threshold
\* within 5 of the value the pass started from (at startup, the table's),
\* whatever that value was.
C18_StepAtMostFive ==
    [][obs'.pass = "ran"
       => LET old == IF obs'.op = "init"
                     THEN TierThreshold(Cardinality(cpu_online))
                     ELSE cpu_performance_threshold
          IN  Distance(cpu_performance_threshold', old) <= 5]_vars

(***************************************************************************)
(* C19                                                                     *)
(***************************************************************************)

\* C19: with invocations executed one at a time, last_optimization_timestamp
\* is moved by effective passes only, every effective pass sets it to its
\* 'now', and an effective pass comes at least balance_interval_ms (the
\* value in force at that pass) after the timestamp the previous one left:
\* two effective passes under one interval are that interval apart.
C19_EffectiveSpacing ==
    [][/\ last_optimization_time' # last_optimization_time
          => obs'.pass = "ran"
       /\ obs'.pass = "ran"
          => /\ last_optimization_time' = clock
             /\ obs'.sampled = OnlineDuring
             /\ clock - last_optimization_time
                    >= load_balance_interval' * NSEC_PER_MSEC]_vars

\* C19 witness: a second effective pass under the table's interval of 100,
\* on a hotplug event: the threshold stands two steps above the table's 70.
C19_Witness ==
    /\ obs.pass = "ran"
    /\ obs.op = "hotplug"
    /\ last_optimization_time = clock
    /\ load_balance_interval = 100
    /\ cpu_performance_threshold = 80

(***************************************************************************)
(* C20                                                                     *)
(***************************************************************************)

\* C20: an invocation the gate rejects came less than balance_interval_ms
\* after last_optimization_timestamp and changes nothing: the timestamp,
\* the threshold (at startup, the value the table has just set) and the
\* enabled flag keep their values, no processor is sampled, no overload is
\* reported, the fan-out branch is not taken and no signal is sent.
C20_GatedChangesNothing ==
    [][obs'.pass = "gated"
       => /\ clock - last_optimization_time
                 < load_balance_interval' * NSEC_PER_MSEC
          /\ last_optimization_time' = last_optimization_time
          /\ cpu_performance_threshold' =
                 IF obs'.op = "init"
                 THEN TierThreshold(Cardinality(cpu_online))
                 ELSE cpu_performance_threshold
          /\ obs'.op # "init"
                 => load_balance_interval' = load_balance_interval
          /\ obs'.op # "exit"
                 => policy_optimization_enabled' = policy_optimization_enabled
          /\ obs'.sampled = {}
          /\ obs'.overloaded = {}
          /\ ~obs'.triggered
          /\ obs'.ipi = NoIpi
          /\ obs'.cpu = NoCpu]_vars

\* C20 witness: a hotplug invocation was rejected while the policy was
\* enabled and one of two online processors was overloaded: the pass it did
\* not make would have signalled the other processor.
C20_Witness ==
    /\ obs.pass = "gated"
    /\ obs.op = "hotplug"
    /\ policy_optimization_enabled
    /\ Cardinality(cpu_online) = 2
    /\ \E c \in cpu_online : nr_running[c] > 2 * Cardinality(cpu_online)
    /\ last_optimization_time > 0
    /\ clock > last_optimization_time

(***************************************************************************)
(* C21                                                                     *)
(***************************************************************************)

\* The last step produced a statistics report (a report changes nothing, so
\* the state is the one the report was taken from).
ReportTaken == pobs.op = "read" /\ pobs.name = "hmbird_stats"

\* C21: in a statistics report, row i of each fixed-width table carries
\* processor i's figures when processor i is online and zeros when it is
\* not, whatever the set of online processors is.
C21_RowsFollowOnline ==
    ReportTaken
    => /\ \A i \in 0 .. 9 :
             pobs.out.gdsq_cnt[i] =
                 IF i \in cpu_online
                 THEN <<nr_running[i], nr_switches[i] % 65536>>
                 ELSE <<0, 0>>
       /\ \A i \in 0 .. 7 :
             /\ pobs.out.pcp_ldsq_cnt[i] =
                    IF i \in cpu_online
                    THEN <<nr_running[i], (clock \div 1024) % 100>>
                    ELSE <<0, 0>>
             /\ pobs.out.pcp_enql_cnt[i] =
                    IF i \in cpu_online
                    THEN (nr_switches[i] \div 256) % 256
                    ELSE 0
             /\ pobs.out.pcp_timeout_cnt[i] =
                    IF i \in cpu_online /\ nr_running[i] > 0
                    THEN clock % 1000
                    ELSE 0

(***************************************************************************)
(* C22                                                                     *)
(***************************************************************************)

\* C22: a pass that sends a rebalance signal does not lower
\* performance_threshold: the threshold it leaves is at least the one it
\* started from (at startup, the table's).
C22_SignalNoDecrease ==
    [][(obs'.pass = "ran" /\ obs'.ipi # NoIpi)
       => LET old == IF obs'.op = "init"
                     THEN TierThreshold(Cardinality(cpu_online))
                     ELSE cpu_performance_threshold
          IN  cpu_performance_threshold' >= old]_vars

====
